---- MODULE Spec2Model ----
(***************************************************************************)
(* Model of the BNetzA regression pipeline:                                *)
(*   src/Data_Preprocessing/data_preprocessing.py                          *)
(*   src/Modelling/models.py                                               *)
(*                                                                         *)
(* A DataFrame is a function from column names to columns; a column is a   *)
(* sequence of cell values, one per row.  A column name is a sequence of   *)
(* tokens, so that the substring and regular-expression tests of the code  *)
(* (".N" in col, col.split(".N"), (tot|sum)$, ...) are computed on the     *)
(* name.  A cell value is <<fn, num, den>> and denotes fn(num/den) with    *)
(* fn one of "id", "log1p", "exp": rationals are exact, and the            *)
(* transcendental functions are kept as constructors on top of them.       *)
(***************************************************************************)
EXTENDS Integers, Sequences, FiniteSets, TLC

\* -------------------------------------------------------------------------
\* Bounds of the model
\* -------------------------------------------------------------------------
\* raw cell values of a feature column are 0..MaxVal
MaxVal == 2
\* raw cell values of the target column are 0..MaxTarget
MaxTarget == 1

\* raw cell values of the frames given to the column aggregator are 0..MaxCell
MaxCell == 1
\* number of columns of a frame given to the column aggregator
MaxCols == 3

\* rows of the training frame and of the test frame
TrainRows == 1..3
TestRows == 1..1
\* rows of a frame given to the column aggregator
AggRows == 1..2

\* -------------------------------------------------------------------------
\* Exact arithmetic
\* -------------------------------------------------------------------------
Abs(i) == IF i < 0 THEN -i ELSE i

RECURSIVE GCD(_, _)
GCD(a, b) == IF b = 0 THEN a ELSE GCD(b, a % b)

\* the rational n/d (d # 0) in lowest terms with a positive denominator
Rat(n, d) ==
    LET g == GCD(Abs(n), Abs(d))
        s == IF d < 0 THEN -1 ELSE 1
    IN  <<(s * n) \div g, (s * d) \div g>>

RatSub(a, b) == Rat(a[1] * b[2] - b[1] * a[2], a[2] * b[2])
RatGt(a, b) == a[1] * b[2] > b[1] * a[2]

RatAdd(a, b) == Rat(a[1] * b[2] + b[1] * a[2], a[2] * b[2])
RatMul(a, b) == Rat(a[1] * b[1], a[2] * b[2])
RatAbs(a) == <<Abs(a[1]), a[2]>>
\* a / b for b # 0
RatDiv(a, b) == Rat(a[1] * b[2], a[2] * b[1])

RECURSIVE SumSeq(_)
SumSeq(s) == IF s = <<>> THEN 0 ELSE s[1] + SumSeq(Tail(s))

RECURSIVE RatSum(_)
RatSum(s) == IF s = <<>> THEN <<0, 1>> ELSE RatAdd(s[1], RatSum(Tail(s)))

\* the largest r in lo..hi with r * r <= n (lo * lo <= n)
RECURSIVE IsqrtIn(_, _, _)
IsqrtIn(n, lo, hi) ==
    IF lo >= hi THEN lo
    ELSE LET mid == (lo + hi + 1) \div 2
         IN  IF mid * mid <= n THEN IsqrtIn(n, mid, hi) ELSE IsqrtIn(n, lo, mid - 1)
Isqrt(n) == IsqrtIn(n, 0, IF n < 46340 THEN n ELSE 46340)

\* -------------------------------------------------------------------------
\* Cell values
\* -------------------------------------------------------------------------
Raw(n) == <<"id", n, 1>>
IsRaw(v) == v[1] = "id" /\ v[3] = 1
\* the integers of a column of raw cells
Ints(col) == [i \in DOMAIN col |-> col[i][2]]

\* numpy.log1p of one cell: log1p(0) = 0, otherwise the value log(1 + q)
Log1p(v) ==
    IF v = Raw(0) THEN Raw(0)
    ELSE IF v[1] = "id" THEN <<"log1p", v[2], v[3]>>
    ELSE <<"log1p(" \o v[1] \o ")", v[2], v[3]>>

Log1pCol(col) == [i \in DOMAIN col |-> Log1p(col[i])]

\* -------------------------------------------------------------------------
\* Column names
\* -------------------------------------------------------------------------
\* the outcome column of every dataset of the pipeline
target == <<"cTOTEXn">>
\* a plain feature and a pre-existing aggregate feature
FeatX == <<"x">>
FeatYTot == <<"y", "tot">>

\* the levels N1, N2 and N5 of the variable y
FeatYN1 == <<"y", ".N", "1">>
FeatYN2 == <<"y", ".N", "2">>
FeatYN5 == <<"y", ".N", "5">>
\* level N1 of a variable whose name holds the marker "tot": total.N1
FeatTotalN1 == <<"tot", "al", ".N", "1">>

\* level N1 of a variable whose name holds ".N": a.Nb.N1
FeatNestedN1 == <<"a", ".N", "b", ".N", "1">>

\* df.columns: the columns of a frame in their order in the table
ColumnOrder ==
    <<FeatX, target, FeatYTot, FeatYN1, FeatYN2, FeatYN5, FeatTotalN1, FeatNestedN1>>
Columns(df) == SelectSeq(ColumnOrder, LAMBDA c : c \in DOMAIN df)

\* -------------------------------------------------------------------------
\* Statistics of the feature transformer (scipy.stats.skew, LinearRegression,
\* PolynomialFeatures, r2_score), in exact arithmetic on integer columns
\* -------------------------------------------------------------------------
\* n * sum(x_i * y_i) - sum(x) * sum(y): n^2 times the covariance
Cov(xs, ys) ==
    Len(xs) * SumSeq([i \in DOMAIN xs |-> xs[i] * ys[i]]) - SumSeq(xs) * SumSeq(ys)

Squares(xs) == [i \in DOMAIN xs |-> xs[i] * xs[i]]

\* sum of (n * x_i - sum(x))^k: n^k times the k-th central sum
CentralSum(xs, k) ==
    LET d == [i \in DOMAIN xs |-> Len(xs) * xs[i] - SumSeq(xs)]
    IN  SumSeq([i \in DOMAIN xs |-> IF k = 2 THEN d[i] * d[i] ELSE d[i] * d[i] * d[i]])

\* skew(x) = m3 / m2^1.5 (biased moments) = sqrt(n) * D3 / D2^1.5.
\* The statistic is kept as its sign and its square; a column with zero
\* variance has no skewness (nan), and every comparison with nan is false.
SkewDefined(xs) == CentralSum(xs, 2) > 0
SkewSign(xs) ==
    IF CentralSum(xs, 3) > 0 THEN 1 ELSE IF CentralSum(xs, 3) < 0 THEN -1 ELSE 0
SkewSquare(xs) ==
    LET D2 == CentralSum(xs, 2)
        D3 == CentralSum(xs, 3)
    IN  Rat(Len(xs) * D3 * D3, D2 * D2 * D2)

\* skew(xs) > thr and skew(xs) = thr, for a threshold thr = <<p, q>> >= 0
SkewGreater(xs, thr) ==
    /\ SkewDefined(xs)
    /\ SkewSign(xs) = 1
    /\ RatGt(SkewSquare(xs), Rat(thr[1] * thr[1], thr[2] * thr[2]))
SkewEquals(xs, thr) ==
    /\ SkewDefined(xs)
    /\ SkewSign(xs) >= 0
    /\ SkewSquare(xs) = Rat(thr[1] * thr[1], thr[2] * thr[2])

\* LinearRegression().fit(X, y).predict(X) scored by r2_score: the training
\* R^2 of the least-squares line, Sxy^2 / (Sxx * Syy).  r2_score of a
\* constant y that is predicted exactly is 1.
R2Linear(xs, ys) ==
    LET Suu == Cov(xs, xs)
        Suy == Cov(xs, ys)
        Syy == Cov(ys, ys)
    IN  IF Syy = 0 THEN <<1, 1>>
        ELSE IF Suu = 0 THEN <<0, 1>>
        ELSE Rat(Suy * Suy, Suu * Syy)

\* the degree-2 fit: least squares of y on [1, x, x^2] (min-norm solution
\* when x has fewer than three distinct values).  coefficients b1 = b1n/den,
\* b2 = b2n/den of x and x^2 after centring.
PolyFit(xs, ys) ==
    LET ws == Squares(xs)
        Suu == Cov(xs, xs)
        Suw == Cov(xs, ws)
        Sww == Cov(ws, ws)
        Suy == Cov(xs, ys)
        Swy == Cov(ws, ys)
        det == Suu * Sww - Suw * Suw
    IN  IF det > 0
        THEN [b1n |-> Suy * Sww - Swy * Suw, b2n |-> Swy * Suu - Suy * Suw,
              den |-> det, n |-> Len(xs), Sx |-> SumSeq(xs), Sw |-> SumSeq(ws),
              Sy |-> SumSeq(ys)]
        ELSE IF Suu > 0
        THEN [b1n |-> Suy * Suu, b2n |-> Suw * Suy,
              den |-> Suu * Suu + Suw * Suw, n |-> Len(xs), Sx |-> SumSeq(xs),
              Sw |-> SumSeq(ws), Sy |-> SumSeq(ys)]
        ELSE [b1n |-> 0, b2n |-> 0, den |-> 1, n |-> Len(xs), Sx |-> SumSeq(xs),
              Sw |-> SumSeq(ws), Sy |-> SumSeq(ys)]

\* poly_reg.predict(poly.transform(x)) for one integer x
PolyPredict(m, x) ==
    LET q == Rat(m.Sy * m.den + m.b1n * (m.n * x - m.Sx)
                    + m.b2n * (m.n * x * x - m.Sw), m.n * m.den)
    IN  <<"id", q[1], q[2]>>

PolyPredictCol(m, col) == [i \in DOMAIN col |-> PolyPredict(m, col[i])]

\* training R^2 of the degree-2 fit: explained / total sum of squares
R2Poly(xs, ys) ==
    LET ws == Squares(xs)
        Suu == Cov(xs, xs)
        Suw == Cov(xs, ws)
        Sww == Cov(ws, ws)
        Suy == Cov(xs, ys)
        Swy == Cov(ws, ys)
        Syy == Cov(ys, ys)
        det == Suu * Sww - Suw * Suw
    IN  IF Syy = 0 THEN <<1, 1>>
        ELSE IF det = 0 THEN R2Linear(xs, ys)
        ELSE Rat(Suy * Suy * Sww - 2 * Suy * Swy * Suw + Swy * Swy * Suu, det * Syy)

\* -------------------------------------------------------------------------
\* State
\* -------------------------------------------------------------------------
VARIABLES
    pc,                     \* position of the running function
    df_train, df_test,      \* the caller's train and test frames
    df_train_xlog,          \* the frames transform_features works on
    df_test_xlog,
    feature_idx,            \* columns of df_train_xlog already iterated
    fit_calls,              \* per feature: LinearRegression.fit calls made
    decision,               \* per feature: "log1p", "poly" or "none"
    skewness_threshold,     \* <<p, q>>: the threshold p/q
    improvement_threshold,
    other,                  \* a second run on the same train frame and
                            \* another test frame: [test_in, train, test,
                            \* fit_calls, decision]
    df,                     \* aggregate_and_sum_by_group: the frame object
                            \* the caller passed in
    variable_groups,        \* prefixes still to be iterated
    new_columns,            \* the dictionary of aggregate columns
    result,                 \* the frame the function returned
    locals,                 \* create_variations: its local frames, by name
    df_train_list,          \* create_variations: the lists it returns
    df_test_list,
    cbm,                    \* cluster_based_modeling: its local names, by name
    lfs,                    \* lasso_feature_selection_linear_regression:
                            \* its local names, by name
    fitted,                 \* the estimators whose fit has been called
    predicted,              \* model_predict: the four vectors it returned
    error                   \* the exception that left the running function

transform_vars == <<df_train_xlog, df_test_xlog, feature_idx, fit_calls, decision,
                    skewness_threshold, improvement_threshold, other>>
aggregate_vars == <<df, variable_groups, new_columns, result>>

variation_vars == <<locals, df_train_list, df_test_list>>

model_vars == <<cbm, lfs, fitted, predicted, error>>

vars == <<pc, df_train, df_test, transform_vars, aggregate_vars, variation_vars,
          model_vars>>

\* the empty frame, and the value of a name that is not bound
NoFrame == [c \in {} |-> <<>>]
None == "None"

\* the variables of a part of the pipeline that is not running
IdleTransform ==
    /\ df_train_xlog = NoFrame
    /\ df_test_xlog = NoFrame
    /\ feature_idx = 0
    /\ fit_calls = NoFrame
    /\ decision = NoFrame
    /\ skewness_threshold = <<1, 2>>
    /\ improvement_threshold = <<1, 100>>
    /\ other = None
IdleAggregate ==
    /\ df = NoFrame
    /\ variable_groups = {}
    /\ new_columns = NoFrame
    /\ result = None
IdleVariations ==
    /\ locals = NoFrame
    /\ df_train_list = <<>>
    /\ df_test_list = <<>>
\* no exception
NoError == [type |-> "None", raised_by |-> "None", message |-> ""]
IdleModels ==
    /\ cbm = NoFrame
    /\ lfs = NoFrame
    /\ fitted = {}
    /\ predicted = NoFrame
    /\ error = NoError

\* -------------------------------------------------------------------------
\* 3. Feature transformation
\* -------------------------------------------------------------------------
\* degree of PolynomialFeatures (the default of apply_transformation)
degree == 2

\* a mis-comparison: skewness >= skewness_threshold
IsSkewedOrEqual(train, feature, skew_thr) ==
    \/ SkewGreater(Ints(train[feature]), skew_thr)
    \/ SkewEquals(Ints(train[feature]), skew_thr)

\* if skewness > skewness_threshold
IsSkewed(train, feature, skew_thr) == SkewGreater(Ints(train[feature]), skew_thr)

\* a mis-comparison: r2_poly > improvement_threshold
PolyAboveThreshold(train, feature, tgt, impr_thr) ==
    RatGt(R2Poly(Ints(train[feature]), Ints(train[tgt])), Rat(impr_thr[1], impr_thr[2]))

\* if r2_poly - r2_lin > improvement_threshold
PolyImproves(train, feature, tgt, impr_thr) ==
    LET xs == Ints(train[feature])
        ys == Ints(train[tgt])
    IN  RatGt(RatSub(R2Poly(xs, ys), R2Linear(xs, ys)), Rat(impr_thr[1], impr_thr[2]))

\* lines 81-83: log1p on the train and the test column, no regression fitted
LogBranch(train, test, feature) ==
    [train |-> [train EXCEPT ![feature] = Log1pCol(train[feature])],
     test |-> [test EXCEPT ![feature] = Log1pCol(test[feature])],
     fits |-> 0, decision |-> "log1p"]

\* lines 85-110: the plain and the polynomial regression are fitted on the
\* training rows (two fit calls); the columns are replaced by the polynomial
\* model's predictions when the R^2 improvement exceeds the threshold
PolyBranch(train, test, feature, tgt, impr_thr) ==
    LET poly_reg == PolyFit(Ints(train[feature]), Ints(train[tgt]))
    IN  IF PolyImproves(train, feature, tgt, impr_thr)
        THEN [train |-> [train EXCEPT
                           ![feature] = PolyPredictCol(poly_reg, Ints(train[feature]))],
              test |-> [test EXCEPT
                           ![feature] = PolyPredictCol(poly_reg, Ints(test[feature]))],
              fits |-> 2, decision |-> "poly"]
        ELSE [train |-> train, test |-> test, fits |-> 2, decision |-> "none"]

\* a leak: the skewness is measured on the train and test rows together
ApplyTransformationPooled(train, test, feature, tgt, skew_thr, impr_thr) ==
    IF SkewGreater(Ints(train[feature] \o test[feature]), skew_thr)
    THEN LogBranch(train, test, feature)
    ELSE PolyBranch(train, test, feature, tgt, impr_thr)

\* apply_transformation: the frames after the call, the number of
\* LinearRegression.fit calls it made and the branch it took
ApplyTransformation(train, test, feature, tgt, skew_thr, impr_thr) ==
    IF IsSkewed(train, feature, skew_thr)
    THEN LogBranch(train, test, feature)
    ELSE PolyBranch(train, test, feature, tgt, impr_thr)

\* transform_features, as one call: apply_transformation over the columns
\* cols (df_train.columns at the start of the loop), skipping the target
RECURSIVE TransformFeatures(_, _, _, _, _, _)
TransformFeatures(train, test, cols, tgt, skew_thr, impr_thr) ==
    IF cols = <<>> THEN [train |-> train, test |-> test]
    ELSE IF Head(cols) = tgt
    THEN TransformFeatures(train, test, Tail(cols), tgt, skew_thr, impr_thr)
    ELSE LET r == ApplyTransformation(train, test, Head(cols), tgt, skew_thr, impr_thr)
         IN  TransformFeatures(r.train, r.test, Tail(cols), tgt, skew_thr, impr_thr)

\* columns of raw cells
FeatureColumns(rows) == {[i \in rows |-> Raw(f[i])] : f \in [rows -> 0..MaxVal]}
TargetColumns(rows) == {[i \in rows |-> Raw(f[i])] : f \in [rows -> 0..MaxTarget]}

\* the frames over the columns cols
Frames(cols, rows) ==
    {f \in [cols -> FeatureColumns(rows) \cup TargetColumns(rows)] :
        \A c \in cols : f[c] \in (IF c = target THEN TargetColumns(rows)
                                  ELSE FeatureColumns(rows))}

SkewnessThresholds == {<<1, 2>>, <<0, 1>>}
ImprovementThresholds == {<<1, 100>>, <<1, 4>>}

NoCalls == [c \in {} |-> 0]

\* create_variations has copied its arguments (df_train.copy()) and calls
\* transform_features on the copies
InitTransform ==
    /\ pc = "transform"
    /\ df_train \in Frames({FeatX, target}, TrainRows)
    /\ df_test \in Frames({FeatX, target}, TestRows)
    /\ df_train_xlog = df_train
    /\ df_test_xlog = df_test
    /\ feature_idx = 0
    /\ fit_calls = NoCalls
    /\ decision = NoCalls
    /\ skewness_threshold \in SkewnessThresholds
    /\ improvement_threshold \in ImprovementThresholds
    /\ other = [test_in |-> df_test, train |-> df_train, test |-> df_test,
                fit_calls |-> NoCalls, decision |-> NoCalls]
    /\ IdleAggregate
    /\ IdleVariations
    /\ IdleModels

\* one iteration of the loop of transform_features
TransformStep ==
    /\ pc = "transform"
    /\ feature_idx < Len(Columns(df_train_xlog))
    /\ LET feature == Columns(df_train_xlog)[feature_idx + 1]
           r == ApplyTransformation(df_train_xlog, df_test_xlog, feature, target,
                                    skewness_threshold, improvement_threshold)
           o == ApplyTransformation(other.train, other.test, feature, target,
                                    skewness_threshold, improvement_threshold)
       IN  IF feature # target
           THEN /\ df_train_xlog' = r.train
                /\ df_test_xlog' = r.test
                /\ fit_calls' = (feature :> r.fits) @@ fit_calls
                /\ decision' = (feature :> r.decision) @@ decision
                /\ other' = [other EXCEPT !.train = o.train, !.test = o.test,
                                !.fit_calls = (feature :> o.fits) @@ @,
                                !.decision = (feature :> o.decision) @@ @]
           ELSE UNCHANGED <<df_train_xlog, df_test_xlog, fit_calls, decision, other>>
    /\ feature_idx' = feature_idx + 1
    /\ UNCHANGED <<pc, df_train, df_test, skewness_threshold, improvement_threshold,
                   aggregate_vars, variation_vars, model_vars>>

\* return df_train, df_test
TransformReturn ==
    /\ pc = "transform"
    /\ feature_idx = Len(Columns(df_train_xlog))
    /\ pc' = "transformed"
    /\ UNCHANGED <<df_train, df_test, transform_vars, aggregate_vars, variation_vars,
                   model_vars>>

NextTransform == TransformStep \/ TransformReturn

SpecTransform == InitTransform /\ [][NextTransform]_vars

\* two calls of transform_features on copies of the same train frame, the
\* second with another test frame
InitLeak ==
    /\ pc = "transform"
    /\ df_train \in Frames({FeatX, target}, TrainRows)
    /\ df_test \in Frames({FeatX, target}, TestRows)
    /\ df_test[target] = [i \in TestRows |-> Raw(0)]
    /\ df_train_xlog = df_train
    /\ df_test_xlog = df_test
    /\ feature_idx = 0
    /\ fit_calls = NoCalls
    /\ decision = NoCalls
    /\ skewness_threshold \in SkewnessThresholds
    /\ improvement_threshold \in ImprovementThresholds
    /\ \E t \in Frames({FeatX, target}, TestRows) :
          /\ t[target] = df_test[target]
          /\ other = [test_in |-> t, train |-> df_train, test |-> t,
                      fit_calls |-> NoCalls, decision |-> NoCalls]
    /\ IdleAggregate
    /\ IdleVariations
    /\ IdleModels

SpecLeak == InitLeak /\ [][NextTransform]_vars

\* -------------------------------------------------------------------------
\* 3. Feature transformation on columns with missing values
\* -------------------------------------------------------------------------
\* a missing value (numpy.nan) in a train column
NaN == <<"nan", 0, 1>>
HasNaN(col) == \E i \in DOMAIN col : col[i] = NaN

\* LinearRegression.fit validates its input and rejects a missing value
FitError ==
    [type |-> "ValueError", raised_by |-> "LinearRegression.fit",
     message |-> "Input contains NaN"]

\* apply_transformation on train columns that may hold a missing value.
\* skew of a column with a missing value is nan, and nan > threshold is
\* false, so the plain fit at line 91 is called and raises; a missing value
\* in the target alone is met by that fit unless the log branch returned
\* before it.  No statement of lines 69-122 catches the exception.
ApplyTransformationOrRaise(train, test, feature, tgt, skew_thr, impr_thr) ==
    IF HasNaN(train[feature])
    THEN [raised |-> TRUE, train |-> train, test |-> test, fits |-> 1,
          decision |-> "raised"]
    ELSE IF IsSkewed(train, feature, skew_thr)
    THEN [raised |-> FALSE] @@ LogBranch(train, test, feature)
    ELSE IF HasNaN(train[tgt])
    THEN [raised |-> TRUE, train |-> train, test |-> test, fits |-> 1,
          decision |-> "raised"]
    ELSE [raised |-> FALSE] @@ PolyBranch(train, test, feature, tgt, impr_thr)

\* train columns whose cells are raw values or missing
ColumnsWithNaN(rows, max) ==
    {[i \in rows |-> IF f[i] < 0 THEN NaN ELSE Raw(f[i])] : f \in [rows -> (0 - 1)..max]}

\* the target columns of the frames with missing values
NaNTargetColumns ==
    {<<Raw(0), Raw(1), Raw(2)>>, <<Raw(0), Raw(1), Raw(1)>>, <<Raw(0), NaN, Raw(1)>>}

\* transform_features on copies of a train frame with two features, which
\* may hold missing values, and a test frame without missing values
InitTransformNaN ==
    /\ pc = "transform"
    /\ \E x \in ColumnsWithNaN(TrainRows, MaxVal), y \in ColumnsWithNaN(TrainRows, MaxCell),
          t \in NaNTargetColumns :
          df_train = [c \in {FeatX, target, FeatYTot} |->
                         IF c = FeatX THEN x ELSE IF c = target THEN t ELSE y]
    /\ df_test = [c \in {FeatX, target, FeatYTot} |-> [i \in TestRows |-> Raw(1)]]
    /\ df_train_xlog = df_train
    /\ df_test_xlog = df_test
    /\ feature_idx = 0
    /\ fit_calls = NoCalls
    /\ decision = NoCalls
    /\ skewness_threshold = <<1, 2>>
    /\ improvement_threshold = <<1, 100>>
    /\ other = None
    /\ IdleAggregate
    /\ IdleVariations
    /\ IdleModels

\* one iteration of the loop of transform_features; an exception of
\* apply_transformation leaves the loop and the function
TransformStepOrRaise ==
    /\ pc = "transform"
    /\ feature_idx < Len(Columns(df_train_xlog))
    /\ LET feature == Columns(df_train_xlog)[feature_idx + 1]
           r == ApplyTransformationOrRaise(df_train_xlog, df_test_xlog, feature, target,
                                           skewness_threshold, improvement_threshold)
       IN  IF feature = target
           THEN UNCHANGED <<pc, df_train_xlog, df_test_xlog, fit_calls, decision, error>>
           ELSE /\ df_train_xlog' = r.train
                /\ df_test_xlog' = r.test
                /\ fit_calls' = (feature :> r.fits) @@ fit_calls
                /\ decision' = (feature :> r.decision) @@ decision
                /\ pc' = IF r.raised THEN "raised" ELSE pc
                /\ error' = IF r.raised THEN FitError ELSE error
    /\ feature_idx' = feature_idx + 1
    /\ UNCHANGED <<df_train, df_test, skewness_threshold, improvement_threshold, other,
                   aggregate_vars, variation_vars, predicted, cbm, lfs, fitted>>

NextTransformNaN == TransformStepOrRaise \/ TransformReturn

SpecTransformNaN == InitTransformNaN /\ [][NextTransformNaN]_vars

\* -------------------------------------------------------------------------
\* 4. Feature aggregation
\* -------------------------------------------------------------------------
\* '.N' in col
HasDotN(col) == \E i \in DOMAIN col : col[i] = ".N"

\* col.split('.N')[0]: the name up to its first ".N"
Prefix(col) ==
    LET first == CHOOSE i \in DOMAIN col :
                    col[i] = ".N" /\ \A j \in 1..(i - 1) : col[j] # ".N"
    IN  SubSeq(col, 1, first - 1)

\* variable_groups = set(col.split('.N')[0] for col in df.columns if '.N' in col)
VariableGroups(frame) == {Prefix(col) : col \in {c \in DOMAIN frame : HasDotN(c)}}

\* f"{var}.N{i}", f"{var}_agg_N1to4", f"{var}_agg_N5to7"
LevelName(var, i) == var \o <<".N", ToString(i)>>
AggN1to4(var) == var \o <<"_agg_N1to4">>
AggN5to7(var) == var \o <<"_agg_N5to7">>

\* [f"{var}.N{i}" for i in range(lo, hi + 1) if f"{var}.N{i}" in df.columns]
LevelCols(frame, var, lo, hi) ==
    LET RECURSIVE Build(_)
        Build(i) ==
            IF i > hi THEN <<>>
            ELSE IF LevelName(var, i) \in DOMAIN frame
            THEN <<LevelName(var, i)>> \o Build(i + 1)
            ELSE Build(i + 1)
    IN  Build(lo)
N1N4Cols(frame, var) == LevelCols(frame, var, 1, 4)
N5N7Cols(frame, var) == LevelCols(frame, var, 5, 7)

Range(seq) == {seq[i] : i \in DOMAIN seq}

\* df[cols].sum(axis=1): the row-wise sum of the columns cols
RowSum(frame, cols, rows) ==
    [r \in rows |-> Raw(SumSeq([k \in DOMAIN cols |-> frame[cols[k]][r][2]]))]

\* df.drop(columns=cols)
Drop(frame, cols) == [c \in DOMAIN frame \ cols |-> frame[c]]

\* the regular expression (tot|sum), searched anywhere in the name
ContainsMarker(col) == \E i \in DOMAIN col : col[i] \in {"tot", "sum"}

\* the regular expression (tot|sum)$: the name ends with a marker
EndsWithMarker(col) == col # <<>> /\ col[Len(col)] \in {"tot", "sum"}

\* a mis-written pattern: only the names that end with a marker are dropped
FilterNoMarkerAtEnd(frame) ==
    [c \in {d \in DOMAIN frame : ~ EndsWithMarker(d)} |-> frame[c]]

\* df.filter(regex='^(?!.*(tot|sum)).*'): the columns whose name holds
\* neither "tot" nor "sum"
FilterNoMarker(frame) ==
    [c \in {d \in DOMAIN frame : ~ ContainsMarker(d)} |-> frame[c]]

\* the body of the loop for one prefix: the dictionary and the frame after it
GroupStep(frame, columns, var, rows) ==
    LET n1_n4_cols == N1N4Cols(frame, var)
        n5_n7_cols == N5N7Cols(frame, var)
        c14 == IF n1_n4_cols # <<>>
               THEN (AggN1to4(var) :> RowSum(frame, n1_n4_cols, rows)) @@ columns
               ELSE columns
        c57 == IF n5_n7_cols # <<>>
               THEN (AggN5to7(var) :> RowSum(frame, n5_n7_cols, rows)) @@ c14
               ELSE c14
    IN  [df |-> Drop(frame, Range(n1_n4_cols) \cup Range(n5_n7_cols)),
         new_columns |-> c57]

\* pd.concat([df, pd.DataFrame(new_columns)], axis=1)
Concat(frame, columns) == frame @@ columns

\* the frames the aggregator is given: up to MaxCols columns of raw cells
AggUniverse == {FeatX, FeatYTot, FeatYN1, FeatYN2, FeatYN5, FeatTotalN1, FeatNestedN1}
AggColumns(rows) == {[i \in rows |-> Raw(f[i])] : f \in [rows -> 0..MaxCell]}
AggFrames ==
    UNION {[cols -> AggColumns(AggRows)] :
              cols \in {S \in SUBSET AggUniverse : Cardinality(S) <= MaxCols}}

\* create_variations has copied df_train (line 214) and calls
\* aggregate_and_sum_by_group on the copy
InitAggregate ==
    /\ pc = "aggregate"
    /\ df_train \in AggFrames
    /\ df_test = NoFrame
    /\ IdleTransform
    /\ df = df_train
    /\ variable_groups = VariableGroups(df_train)
    /\ new_columns = NoFrame
    /\ result = None
    /\ IdleVariations
    /\ IdleModels

\* one iteration of "for var in variable_groups" (a set: any order)
AggregateGroup ==
    /\ pc = "aggregate"
    /\ \E var \in variable_groups :
          LET r == GroupStep(df, new_columns, var, AggRows)
          IN  /\ df' = r.df
              /\ new_columns' = r.new_columns
              /\ variable_groups' = variable_groups \ {var}
    /\ UNCHANGED <<pc, df_train, df_test, transform_vars, result, variation_vars,
                   model_vars>>

\* lines 157-162: concatenate, filter, return
AggregateReturn ==
    /\ pc = "aggregate"
    /\ variable_groups = {}
    /\ result' = FilterNoMarker(Concat(df, new_columns))
    /\ pc' = "aggregated"
    /\ UNCHANGED <<df_train, df_test, transform_vars, df, variable_groups, new_columns,
                   variation_vars, model_vars>>

NextAggregate == AggregateGroup \/ AggregateReturn

SpecAggregate == InitAggregate /\ [][NextAggregate]_vars

\* -------------------------------------------------------------------------
\* 5. Creating data variations
\* -------------------------------------------------------------------------
\* aggregate_and_sum_by_group as one call: the frame it returns
RECURSIVE AggregateLoop(_, _, _, _)
AggregateLoop(frame, columns, groups, rows) ==
    IF groups = {} THEN [df |-> frame, new_columns |-> columns]
    ELSE LET var == CHOOSE v \in groups : TRUE
             r == GroupStep(frame, columns, var, rows)
         IN  AggregateLoop(r.df, r.new_columns, groups \ {var}, rows)

AggregateAndSumByGroup(frame, rows) ==
    LET r == AggregateLoop(frame, NoFrame, VariableGroups(frame), rows)
    IN  FilterNoMarker(Concat(r.df, r.new_columns))

\* the log-outcome column
target_log == <<"cTOTEXn", "_log">>

\* lines 188-191: add cTOTEXn_log = log1p(cTOTEXn), drop cTOTEXn
LogOutcome(frame) ==
    Drop((target_log :> Log1pCol(frame[target])) @@ frame, {target})

\* df.filter(regex='(tot|sum)$|^cTOTEXn$')
FilterAggregated(frame) ==
    [c \in {d \in DOMAIN frame : EndsWithMarker(d) \/ d = target} |-> frame[c]]

\* df.filter(regex='(tot|sum)|^cTOTEXn_log$')
FilterAggregatedLog(frame) ==
    [c \in {d \in DOMAIN frame : ContainsMarker(d) \/ d = target_log} |-> frame[c]]

\* the defaults of transform_features, which create_variations does not override
DefaultSkewnessThreshold == <<1, 2>>
DefaultImprovementThreshold == <<1, 100>>

\* the frames create_variations is given: the same columns in train and
\* test, the target among them
VarUniverse == {FeatX, FeatYTot, FeatYN1, FeatYN2, FeatYN5, FeatTotalN1, FeatNestedN1}
VarColumnSets ==
    {S \cup {target} : S \in {T \in SUBSET VarUniverse : Cardinality(T) + 1 <= MaxCols}}
\* training columns: a right-skewed and a symmetric feature column; a target
\* column that is linear in the symmetric feature and one that is not
VarFeatureColumns == {<<Raw(0), Raw(0), Raw(1)>>, <<Raw(0), Raw(1), Raw(2)>>}
VarTargetColumns == {<<Raw(0), Raw(1), Raw(2)>>, <<Raw(0), Raw(1), Raw(1)>>}
VarTrainFrames(cols) ==
    {f \in [cols -> VarFeatureColumns \cup VarTargetColumns] :
        \A c \in cols : f[c] \in (IF c = target THEN VarTargetColumns
                                  ELSE VarFeatureColumns)}
VarTestFrames(cols) ==
    {f \in [cols -> AggColumns(TestRows) \cup TargetColumns(TestRows)] :
        \A c \in cols : f[c] \in (IF c = target THEN TargetColumns(TestRows)
                                  ELSE AggColumns(TestRows))}

InitVariations ==
    /\ pc = "variations"
    /\ \E cols \in VarColumnSets :
          /\ df_train \in VarTrainFrames(cols)
          /\ df_test \in VarTestFrames(cols)
    /\ IdleTransform
    /\ IdleAggregate
    /\ IdleVariations
    /\ IdleModels

\* lines 181-183: copies of the frames, transformed in place
VariationsTransform ==
    /\ pc = "variations"
    /\ LET r == TransformFeatures(df_train, df_test, Columns(df_train), target,
                                  DefaultSkewnessThreshold, DefaultImprovementThreshold)
       IN  /\ df_train_xlog' = r.train
           /\ df_test_xlog' = r.test
    /\ pc' = "log_outcome"
    /\ UNCHANGED <<df_train, df_test, feature_idx, fit_calls, decision,
                   skewness_threshold, improvement_threshold, other, aggregate_vars,
                   variation_vars, model_vars>>

\* lines 186-199: the two log-outcome variants
VariationsLogOutcome ==
    /\ pc = "log_outcome"
    /\ locals' = [df_train_xlog_ylog |-> LogOutcome(df_train_xlog),
                  df_test_xlog_ylog |-> LogOutcome(df_test_xlog),
                  df_train_ylog |-> LogOutcome(df_train),
                  df_test_ylog |-> LogOutcome(df_test)]
    /\ pc' = "select"
    /\ UNCHANGED <<df_train, df_test, transform_vars, aggregate_vars, df_train_list,
                   df_test_list, model_vars>>

\* lines 202-211: the variants selected by a regular expression on the names
VariationsSelect ==
    /\ pc = "select"
    /\ locals' = [df_train_agg |-> FilterAggregated(df_train),
                  df_test_agg |-> FilterAggregated(df_test),
                  df_train_agg_log |-> FilterAggregatedLog(locals.df_train_xlog_ylog),
                  df_test_agg_log |-> FilterAggregatedLog(locals.df_test_xlog_ylog),
                  df_train_non_agg |-> FilterNoMarker(df_train),
                  df_test_non_agg |-> FilterNoMarker(df_test)] @@ locals
    /\ pc' = "group_agg"
    /\ UNCHANGED <<df_train, df_test, transform_vars, aggregate_vars, df_train_list,
                   df_test_list, model_vars>>

\* lines 214-217: aggregation on N1-4 and N5-7
VariationsGroupAggregate ==
    /\ pc = "group_agg"
    /\ locals' = [df_train_group_agg |-> AggregateAndSumByGroup(df_train, TrainRows),
                  df_test_group_agg |-> AggregateAndSumByGroup(df_test, TestRows)]
                    @@ locals
    /\ pc' = "return"
    /\ UNCHANGED <<df_train, df_test, transform_vars, aggregate_vars, df_train_list,
                   df_test_list, model_vars>>

\* a slip in the returned list: the test list has the two regex-selected
\* aggregate variants in the other order
TestListSwapped(loc, test, test_xlog) ==
    <<test, test_xlog, loc.df_test_xlog_ylog, loc.df_test_ylog, loc.df_test_agg_log,
      loc.df_test_agg, loc.df_test_non_agg, loc.df_test_group_agg>>

\* lines 220-223: the returned lists
TrainList(loc, train, train_xlog) ==
    <<train, train_xlog, loc.df_train_xlog_ylog, loc.df_train_ylog, loc.df_train_agg,
      loc.df_train_agg_log, loc.df_train_non_agg, loc.df_train_group_agg>>
TestList(loc, test, test_xlog) ==
    <<test, test_xlog, loc.df_test_xlog_ylog, loc.df_test_ylog, loc.df_test_agg,
      loc.df_test_agg_log, loc.df_test_non_agg, loc.df_test_group_agg>>

\* line 225: return df_train_list, df_test_list
VariationsReturn ==
    /\ pc = "return"
    /\ df_train_list' = TrainList(locals, df_train, df_train_xlog)
    /\ df_test_list' = TestList(locals, df_test, df_test_xlog)
    /\ pc' = "returned"
    /\ UNCHANGED <<df_train, df_test, transform_vars, aggregate_vars, locals,
                   model_vars>>

NextVariations ==
    \/ VariationsTransform
    \/ VariationsLogOutcome
    \/ VariationsSelect
    \/ VariationsGroupAggregate
    \/ VariationsReturn

SpecVariations == InitVariations /\ [][NextVariations]_vars

\* -------------------------------------------------------------------------
\* Modelling, section 2: utility functions
\* -------------------------------------------------------------------------
\* max_value of safe_exp
max_value == 700

\* safe_exp of one cell: exp(log1p(q)) = 1 + q, exp(0) = 1; any other
\* value, clipped to max_value, stays under the constructor "exp"
SafeExp(v) ==
    IF v[1] = "log1p" THEN <<"id", v[2] + v[3], v[3]>>
    ELSE IF v[1] = "id" /\ v[2] = 0 THEN Raw(1)
    ELSE IF v[1] = "id" /\ v[2] > max_value * v[3] THEN <<"exp", max_value, 1>>
    ELSE IF v[1] = "id" THEN <<"exp", v[2], v[3]>>
    ELSE <<"exp(" \o v[1] \o ")", v[2], v[3]>>

SafeExpCol(col) == [i \in DOMAIN col |-> SafeExp(col[i])]

\* the number of rows of a frame that has the column tgt
Rows(frame, tgt) == Len(frame[tgt])

\* row i of df.drop(columns=[target]): the feature values of the row
XRow(frame, tgt, i) == [c \in DOMAIN frame \ {tgt} |-> frame[c][i]]

\* model.predict(X): a fitted model is the function from feature rows to
\* the values it predicts for them
Predict(model, frame, tgt) ==
    [i \in 1..Rows(frame, tgt) |-> model.pred[XRow(frame, tgt, i)]]

\* model_predict.  StandardScaler (scaling=True) and model.predict
\* (scaling=False) reject a matrix of 0 rows with a ValueError.
ModelPredict(model, train, test, tgt, outcome_transformation) ==
    IF Rows(train, tgt) = 0 \/ Rows(test, tgt) = 0
    THEN [raised |-> TRUE, y_train |-> <<>>, y_train_pred |-> <<>>,
          y_test |-> <<>>, y_test_pred |-> <<>>]
    ELSE IF outcome_transformation = "log"
    THEN [raised |-> FALSE,
          y_train |-> SafeExpCol(train[tgt]),
          y_train_pred |-> SafeExpCol(Predict(model, train, tgt)),
          y_test |-> SafeExpCol(test[tgt]),
          y_test_pred |-> SafeExpCol(Predict(model, test, tgt))]
    ELSE [raised |-> FALSE,
          y_train |-> train[tgt],
          y_train_pred |-> Predict(model, train, tgt),
          y_test |-> test[tgt],
          y_test_pred |-> Predict(model, test, tgt)]

\* the rational a cell of kind "id" denotes
Num(v) == <<v[2], v[3]>>

\* mean_squared_error, mean_absolute_error, mean_absolute_percentage_error
\* of two columns of the same positive length (actual values # 0)
SquaredError(y, p) ==
    RatDiv(RatSum([i \in DOMAIN y |->
                      RatMul(RatSub(Num(y[i]), Num(p[i])), RatSub(Num(y[i]), Num(p[i])))]),
           <<Len(y), 1>>)
AbsoluteError(y, p) ==
    RatDiv(RatSum([i \in DOMAIN y |-> RatAbs(RatSub(Num(y[i]), Num(p[i])))]),
           <<Len(y), 1>>)
PercentageError(y, p) ==
    RatDiv(RatSum([i \in DOMAIN y |->
                      RatDiv(RatAbs(RatSub(Num(y[i]), Num(p[i]))), RatAbs(Num(y[i])))]),
           <<Len(y), 1>>)

\* f"{q:.2f}" of a rational q >= 0, as the number of hundredths printed.
\* The format rounds the binary double to the nearest hundredth; where the
\* exact value lies half-way between two hundredths the double decides,
\* and either neighbour can be printed.
Format2(q) ==
    LET n == 100 * q[1]
        lower == n \div q[2]
        rest == n % q[2]
    IN  IF 2 * rest < q[2] THEN {lower}
        ELSE IF 2 * rest > q[2] THEN {lower + 1}
        ELSE {lower, lower + 1}

\* f"{np.sqrt(q):.2f}": the hundredths printed for the square root of q
FormatSqrt2(q) ==
    LET s == Isqrt((10000 * q[1]) \div q[2])
    IN  IF 40000 * q[1] < (2 * s + 1) * (2 * s + 1) * q[2] THEN {s}
        ELSE IF 40000 * q[1] > (2 * s + 1) * (2 * s + 1) * q[2] THEN {s + 1}
        ELSE {s, s + 1}

\* model_evaluation: the Evaluation Records the call can return (one,
\* unless a metric lies half-way between two hundredths)
ModelEvaluation(y_train, y_train_pred, y_test, y_test_pred, model_name) ==
    {[Model |-> model_name,
      TrainingRMSE |-> a, TrainingMAE |-> b, TrainingMAPE |-> c,
      TestingRMSE |-> d, TestingMAE |-> e, TestingMAPE |-> f] :
        a \in FormatSqrt2(SquaredError(y_train, y_train_pred)),
        b \in Format2(AbsoluteError(y_train, y_train_pred)),
        c \in Format2(PercentageError(y_train, y_train_pred)),
        d \in FormatSqrt2(SquaredError(y_test, y_test_pred)),
        e \in Format2(AbsoluteError(y_test, y_test_pred)),
        f \in Format2(PercentageError(y_test, y_test_pred))}

\* -------------------------------------------------------------------------
\* Modelling, sections 3 and 4: candidate predictors, clustering and
\* cluster-based modelling
\*
\* The estimators of scikit-learn are not part of the repository.  A fit
\* returns any function from feature rows to the values of PredValues, and
\* DBSCAN returns any labelling of the rows with the labels of Labels; the
\* row counts that cv=5 and min_samples=5 ask for are scaled down.
\* -------------------------------------------------------------------------
\* largest distance of a predicted value from the smallest target value
MaxErr == 2

\* the column of the sample frames that stands for the technical block
\* variables, and the label column
technical_blocks_variables == {FeatYTot}
Cluster == <<"Cluster">>

\* the train and test frame handed to cluster_based_modeling
ClusterTrainFrame ==
    [c \in technical_blocks_variables \cup {target} |->
        IF c = target THEN <<Raw(300), Raw(301)>> ELSE <<Raw(1), Raw(2)>>]
ClusterTestFrame ==
    [c \in technical_blocks_variables \cup {target} |->
        IF c = target THEN <<Raw(301), Raw(300)>> ELSE <<Raw(3), Raw(4)>>]

\* the values a fitted model predicts, and the labels DBSCAN assigns
PredValues == {Raw(300 + k) : k \in 0..MaxErr}
Labels == {-1, 0, 1}
Labellings(frame) == [1..Rows(frame, target) -> Labels]

\* the feature rows of a frame
FeatureRows(frame, tgt) == {XRow(frame, tgt, i) : i \in 1..Rows(frame, tgt)}

\* the estimators a fit on the train frame can return, as far as the rows
\* of the train and the test frame are concerned
FittedModels(kind, train, test, tgt) ==
    {[kind |-> kind, pred |-> p] :
        p \in [FeatureRows(train, tgt) \cup FeatureRows(test, tgt) -> PredValues]}

\* the exception of scikit-learn's input validation for an array of 0 rows
ValueError(raised_by) ==
    [type |-> "ValueError", raised_by |-> raised_by,
     message |-> "Found array with 0 sample(s) while a minimum of 1 is required"]

\* lasso_regression up to its return: StandardScaler.fit_transform rejects
\* an empty train frame before LassoCV is fitted; model_predict (line 144)
\* rejects an empty test frame after it
LassoRegression(train, test, tgt, outcome_transformation) ==
    IF Rows(train, tgt) = 0
    THEN {[fit |-> FALSE, raised |-> TRUE,
           error |-> ValueError("StandardScaler.fit_transform")]}
    ELSE {[fit |-> TRUE, model |-> m,
           raised |-> ModelPredict(m, train, test, tgt, outcome_transformation).raised,
           error |-> ValueError("StandardScaler.transform")] :
             m \in FittedModels("Lasso", train, test, tgt)}

\* random_forest_regression up to its return: GridSearchCV.fit rejects an
\* empty train frame; model_predict (line 241) rejects an empty test frame
RandomForestRegression(train, test, tgt, outcome_transformation) ==
    IF Rows(train, tgt) = 0
    THEN {[fit |-> FALSE, raised |-> TRUE, error |-> ValueError("GridSearchCV.fit")]}
    ELSE {[fit |-> TRUE, model |-> m,
           raised |-> ModelPredict(m, train, test, tgt, outcome_transformation).raised,
           error |-> ValueError("Pipeline.predict")] :
             m \in FittedModels("Random Forest", train, test, tgt)}

\* df['Cluster'] = labels
WithCluster(frame, labels) ==
    [c \in DOMAIN frame \cup {Cluster} |->
        IF c = Cluster THEN [i \in DOMAIN labels |-> Raw(labels[i])] ELSE frame[c]]

\* df[df['Cluster'] == label].drop(['Cluster'], axis=1)
RowsWhere(frame, label) ==
    SelectSeq([i \in 1..Len(frame[Cluster]) |-> i],
              LAMBDA i : frame[Cluster][i] = Raw(label))
Partition(frame, label) ==
    LET idx == RowsWhere(frame, label)
    IN  [c \in DOMAIN frame \ {Cluster} |-> [k \in 1..Len(idx) |-> frame[c][idx[k]]]]

\* the outcome_transformation of the call
DefaultOutcomeTransformation == "None"

\* model_predict followed by model_evaluation
PredictAndEvaluate(model, train, test, tgt, outcome_transformation, name) ==
    LET r == ModelPredict(model, train, test, tgt, outcome_transformation)
    IN  ModelEvaluation(r.y_train, r.y_train_pred, r.y_test, r.y_test_pred, name)

InitCluster ==
    /\ pc = "create_clusters"
    /\ df_train = ClusterTrainFrame
    /\ df_test = ClusterTestFrame
    /\ IdleTransform
    /\ IdleAggregate
    /\ IdleVariations
    /\ IdleModels

\* create_clusters: the labels go into the caller's frame
CreateClusters ==
    /\ pc = "create_clusters"
    /\ \E train_clusters \in Labellings(df_train) :
          df_train' = WithCluster(df_train, train_clusters)
    /\ cbm' = [df_train_c0 |-> Partition(df_train', 0),
               df_train_c1 |-> Partition(df_train', -1)]
    /\ pc' = "test_clusters"
    /\ UNCHANGED <<df_test, transform_vars, aggregate_vars, variation_vars, predicted,
                   lfs, fitted,
                   error>>

\* lines 328-338: DBSCAN is fitted again, on the test frame
TestClusters ==
    /\ pc = "test_clusters"
    /\ \E test_clusters \in Labellings(df_test) :
          df_test' = WithCluster(df_test, test_clusters)
    /\ cbm' = [df_test_c0 |-> Partition(df_test', 0),
               df_test_c1 |-> Partition(df_test', -1)] @@ cbm
    /\ pc' = "lasso_c0"
    /\ UNCHANGED <<df_train, transform_vars, aggregate_vars, variation_vars, predicted,
                   lfs, fitted,
                   error>>

\* lines 341-343: Lasso on the core partition
LassoC0 ==
    /\ pc = "lasso_c0"
    /\ \E out \in LassoRegression(cbm.df_train_c0, cbm.df_test_c0, target,
                                  DefaultOutcomeTransformation) :
          /\ fitted' = IF out.fit THEN fitted \cup {"lasso_c0"} ELSE fitted
          /\ IF out.raised
             THEN /\ error' = out.error
                  /\ pc' = "raised"
                  /\ UNCHANGED cbm
             ELSE /\ \E rec \in PredictAndEvaluate(out.model, cbm.df_train_c0,
                                    cbm.df_test_c0, target,
                                    DefaultOutcomeTransformation, "Lasso") :
                        cbm' = [lasso_c0 |-> out.model, eval_metrics_c0 |-> <<rec>>] @@ cbm
                  /\ pc' = "lasso_c1"
                  /\ UNCHANGED error
    /\ UNCHANGED <<df_train, df_test, transform_vars, aggregate_vars, variation_vars,
                   predicted, lfs>>

\* lines 345-347: Lasso on the residual partition
LassoC1 ==
    /\ pc = "lasso_c1"
    /\ \E out \in LassoRegression(cbm.df_train_c1, cbm.df_test_c1, target,
                                  DefaultOutcomeTransformation) :
          /\ fitted' = IF out.fit THEN fitted \cup {"lasso_c1"} ELSE fitted
          /\ IF out.raised
             THEN /\ error' = out.error
                  /\ pc' = "raised"
                  /\ UNCHANGED cbm
             ELSE /\ \E rec \in PredictAndEvaluate(out.model, cbm.df_train_c1,
                                    cbm.df_test_c1, target,
                                    DefaultOutcomeTransformation, "Lasso") :
                        cbm' = [lasso_c1 |-> out.model, eval_metrics_c1 |-> <<rec>>] @@ cbm
                  /\ pc' = "rf_c0"
                  /\ UNCHANGED error
    /\ UNCHANGED <<df_train, df_test, transform_vars, aggregate_vars, variation_vars,
                   predicted, lfs>>

\* lines 350-353: Random Forest on the core partition; its record is
\* appended to the Lasso record.  Both partitions have rows here: the
\* Lasso calls before it have returned.
RfC0 ==
    /\ pc = "rf_c0"
    /\ \E out \in RandomForestRegression(cbm.df_train_c0, cbm.df_test_c0, target,
                                         DefaultOutcomeTransformation) :
          /\ ~ out.raised
          /\ fitted' = fitted \cup {"rf_c0"}
          /\ \E rec \in PredictAndEvaluate(out.model, cbm.df_train_c0, cbm.df_test_c0,
                            target, DefaultOutcomeTransformation, "Random Forest") :
                cbm' = [rf_c0 |-> out.model,
                        eval_metrics_c0 |-> Append(cbm.eval_metrics_c0, rec)] @@ cbm
    /\ pc' = "rf_c1"
    /\ UNCHANGED <<df_train, df_test, transform_vars, aggregate_vars, variation_vars,
                   predicted, lfs,
                   error>>

\* lines 355-358: Random Forest on the residual partition
RfC1 ==
    /\ pc = "rf_c1"
    /\ \E out \in RandomForestRegression(cbm.df_train_c1, cbm.df_test_c1, target,
                                         DefaultOutcomeTransformation) :
          /\ ~ out.raised
          /\ fitted' = fitted \cup {"rf_c1"}
          /\ \E rec \in PredictAndEvaluate(out.model, cbm.df_train_c1, cbm.df_test_c1,
                            target, DefaultOutcomeTransformation, "Random Forest") :
                cbm' = [rf_c1 |-> out.model,
                        eval_metrics_c1 |-> Append(cbm.eval_metrics_c1, rec)] @@ cbm
    /\ pc' = "select"
    /\ UNCHANGED <<df_train, df_test, transform_vars, aggregate_vars, variation_vars,
                   predicted, lfs,
                   error>>

\* a slip in the selection: the last index that holds the smallest value
IdxMinLast(metrics) ==
    CHOOSE i \in DOMAIN metrics :
        /\ \A j \in DOMAIN metrics : metrics[i].TestingMAPE <= metrics[j].TestingMAPE
        /\ \A j \in (i + 1)..Len(metrics) : metrics[j].TestingMAPE > metrics[i].TestingMAPE

\* pd.to_numeric of the printed hundredths, and Series.idxmin: the first
\* index that holds the smallest value
IdxMin(metrics) ==
    CHOOSE i \in DOMAIN metrics :
        /\ \A j \in DOMAIN metrics : metrics[i].TestingMAPE <= metrics[j].TestingMAPE
        /\ \A j \in 1..(i - 1) : metrics[j].TestingMAPE > metrics[i].TestingMAPE

\* lines 361-368 and 376: the winner of a partition
BestModel(metrics) == metrics[IdxMin(metrics)].Model

\* a slip in lines 369-382: the predictions are taken from Lasso whatever
\* the winner is
WinnerAlwaysLasso(best_model, lasso, rf) == lasso

\* lines 369-382: the estimator that predicts for a partition
WinnerModel(best_model, lasso, rf) == IF best_model = "Lasso" THEN lasso ELSE rf

\* lines 361-394: the winner of each partition, the predictions of the
\* winners concatenated core first, the final evaluation and the return
SelectAndRecombine ==
    /\ pc = "select"
    /\ LET best_model_c0 == BestModel(cbm.eval_metrics_c0)
           best_model_c1 == BestModel(cbm.eval_metrics_c1)
           model_c0 == WinnerModel(best_model_c0, cbm.lasso_c0, cbm.rf_c0)
           model_c1 == WinnerModel(best_model_c1, cbm.lasso_c1, cbm.rf_c1)
           r0 == ModelPredict(model_c0, cbm.df_train_c0, cbm.df_test_c0, target,
                              DefaultOutcomeTransformation)
           r1 == ModelPredict(model_c1, cbm.df_train_c1, cbm.df_test_c1, target,
                              DefaultOutcomeTransformation)
           name == <<"model_name", best_model_c0, best_model_c1>>
           y_train == r0.y_train \o r1.y_train
           y_train_pred == r0.y_train_pred \o r1.y_train_pred
           y_test == r0.y_test \o r1.y_test
           y_test_pred == r0.y_test_pred \o r1.y_test_pred
       IN  \E rec \in ModelEvaluation(y_train, y_train_pred, y_test, y_test_pred, name) :
              cbm' = [best_model_c0 |-> best_model_c0, best_model_c1 |-> best_model_c1,
                      model_c0 |-> model_c0, model_c1 |-> model_c1,
                      y_train |-> y_train, y_train_pred |-> y_train_pred,
                      y_test |-> y_test, y_test_pred |-> y_test_pred,
                      model_name |-> name, eval_metrics |-> rec] @@ cbm
    /\ pc' = "returned"
    /\ UNCHANGED <<df_train, df_test, transform_vars, aggregate_vars, variation_vars,
                   predicted, lfs,
                   fitted, error>>

NextCluster ==
    \/ CreateClusters
    \/ TestClusters
    \/ LassoC0
    \/ LassoC1
    \/ RfC0
    \/ RfC1
    \/ SelectAndRecombine

SpecCluster == InitCluster /\ [][NextCluster]_vars

\* -------------------------------------------------------------------------
\* Modelling, section 3: lasso_feature_selection_linear_regression
\* -------------------------------------------------------------------------
\* largest absolute value of a coefficient of the fitted LassoCV
MaxCoef == 1
Coefs == (0 - MaxCoef)..MaxCoef

\* the features of the sample frames
LfsFeatures == {FeatX, FeatYTot, FeatYN1}

\* the train and the test frame of a call, over a set of feature columns
LfsTrainFrame(cols) ==
    [c \in cols \cup {target} |->
        IF c = target THEN <<Raw(300), Raw(301)>> ELSE <<Raw(1), Raw(2)>>]
LfsTestFrame(cols) ==
    [c \in cols \cup {target} |->
        IF c = target THEN <<Raw(301), Raw(300)>> ELSE <<Raw(3), Raw(4)>>]

\* a slip in line 172: the columns whose coefficient is not 0
SelectedNonZero(coef_, columns) == SelectSeq(columns, LAMBDA c : coef_[c] # 0)

\* lines 172-173: the columns whose Lasso coefficient is greater than 0, in
\* the order of the table
SelectedFeatures(coef_, columns) == SelectSeq(columns, LAMBDA c : coef_[c] > 0)

\* line 177: the exception for an empty selection
NoFeaturesError ==
    [type |-> "ValueError", raised_by |-> "lasso_feature_selection_linear_regression",
     message |-> "No features were selected by Lasso. Try adjusting the Lasso parameters."]

\* X_train.columns, and the column sm.add_constant adds
XColumns(frame, tgt) == SelectSeq(Columns(frame), LAMBDA c : c # tgt)
Const == <<"const">>

\* X[selected]: row i of a frame, restricted to the selected columns
SelectedRow(frame, selected, i) == [c \in Range(selected) |-> frame[c][i]]
SelectedRows(frame, selected) ==
    {SelectedRow(frame, selected, i) : i \in 1..Rows(frame, target)}

\* sm.OLS(y_train, X_train_selected).fit(): the linear models a fit on the
\* selected columns can return, as far as the train and test rows go
OlsModels(train, test, selected) ==
    {[exog |-> <<Const>> \o selected, pred |-> p] :
        p \in [SelectedRows(train, selected) \cup SelectedRows(test, selected)
                 -> PredValues]}

\* sm_model.predict over the rows of a frame
OlsPredict(model, frame, selected) ==
    [i \in 1..Rows(frame, target) |-> model.pred[SelectedRow(frame, selected, i)]]

InitLfs ==
    /\ pc = "lasso_select"
    /\ \E cols \in SUBSET LfsFeatures \ {{}} :
          /\ df_train = LfsTrainFrame(cols)
          /\ df_test = LfsTestFrame(cols)
    /\ IdleTransform
    /\ IdleAggregate
    /\ IdleVariations
    /\ IdleModels

\* lines 160-177: LassoCV is fitted, the features are selected, and an
\* empty selection raises
LfsLassoSelect ==
    /\ pc = "lasso_select"
    /\ \E coef_ \in [DOMAIN df_train \ {target} -> Coefs] :
          LET selected == SelectedFeatures(coef_, XColumns(df_train, target))
          IN  /\ lfs' = [coef_ |-> coef_, selected_feature_names_lasso |-> selected]
              /\ IF Len(selected) = 0
                 THEN error' = NoFeaturesError /\ pc' = "raised"
                 ELSE error' = error /\ pc' = "ols"
    /\ fitted' = fitted \cup {"lasso"}
    /\ UNCHANGED <<df_train, df_test, transform_vars, aggregate_vars, variation_vars,
                   predicted, cbm>>

\* lines 180-208: the linear model on the selected features, its
\* predictions, the evaluation and the return
LfsOlsFit ==
    /\ pc = "ols"
    /\ LET selected == lfs.selected_feature_names_lasso
       IN  \E sm_model \in OlsModels(df_train, df_test, selected) :
              LET y_train_pred == OlsPredict(sm_model, df_train, selected)
                  y_test_pred == OlsPredict(sm_model, df_test, selected)
              IN  \E rec \in ModelEvaluation(df_train[target], y_train_pred,
                                             df_test[target], y_test_pred, "model_name") :
                     lfs' = [sm_model |-> sm_model, eval_metrics |-> rec] @@ lfs
    /\ fitted' = fitted \cup {"sm_model"}
    /\ pc' = "returned"
    /\ UNCHANGED <<df_train, df_test, transform_vars, aggregate_vars, variation_vars,
                   predicted, cbm,
                   error>>

NextLfs == LfsLassoSelect \/ LfsOlsFit

SpecLfs == InitLfs /\ [][NextLfs]_vars

\* -------------------------------------------------------------------------
\* The log-outcome variant of create_variations, evaluated by model_predict
\* with outcome_transformation = "log"
\* -------------------------------------------------------------------------
\* the values an estimator fitted on a log outcome predicts
LogPredValues == {Log1p(Raw(v)) : v \in 0..MaxTarget}

\* the estimators a fit on the log-outcome train frame can return
LogFittedModels(train, test, tgt) ==
    {[kind |-> "Lasso", pred |-> p] :
        p \in [FeatureRows(train, tgt) \cup FeatureRows(test, tgt) -> LogPredValues]}

\* the frames given to create_variations: a feature with a different value
\* in every row, and any target column
RoundTripFrame(rows, first, tcol) ==
    [c \in {FeatX, target} |->
        IF c = target THEN tcol ELSE [i \in rows |-> Raw(first + i)]]

InitRoundTrip ==
    /\ pc = "log_outcome"
    /\ \E tcol \in TargetColumns(TrainRows) :
          df_train = RoundTripFrame(TrainRows, 0, tcol)
    /\ \E tcol \in TargetColumns(TestRows) :
          df_test = RoundTripFrame(TestRows, Len(df_train[target]), tcol)
    /\ IdleTransform
    /\ IdleAggregate
    /\ IdleVariations
    /\ IdleModels

\* lines 194-199 of create_variations: the log-outcome variant
RoundTripLogOutcome ==
    /\ pc = "log_outcome"
    /\ locals' = [df_train_ylog |-> LogOutcome(df_train),
                  df_test_ylog |-> LogOutcome(df_test)]
    /\ pc' = "model_predict"
    /\ UNCHANGED <<df_train, df_test, transform_vars, aggregate_vars, df_train_list,
                   df_test_list, model_vars>>

\* an estimator is fitted on the variant, and model_predict is called with
\* target 'cTOTEXn_log' and outcome_transformation = "log"
RoundTripModelPredict ==
    /\ pc = "model_predict"
    /\ \E model \in LogFittedModels(locals.df_train_ylog, locals.df_test_ylog, target_log) :
          LET r == ModelPredict(model, locals.df_train_ylog, locals.df_test_ylog,
                                target_log, "log")
          IN  predicted' = [y_train |-> r.y_train, y_train_pred |-> r.y_train_pred,
                            y_test |-> r.y_test, y_test_pred |-> r.y_test_pred]
    /\ fitted' = fitted \cup {"model"}
    /\ pc' = "predicted"
    /\ UNCHANGED <<df_train, df_test, transform_vars, aggregate_vars, variation_vars,
                   cbm, lfs, error>>

NextRoundTrip == RoundTripLogOutcome \/ RoundTripModelPredict

SpecRoundTrip == InitRoundTrip /\ [][NextRoundTrip]_vars

\* -------------------------------------------------------------------------
\* Claims on the feature transformer
\* -------------------------------------------------------------------------
\* the features apply_transformation has been called on
Processed == DOMAIN decision

\* C1: every feature whose training skewness is strictly greater than
\* skewness_threshold has log1p applied to its train and its test column and
\* no regression is fitted for it; a feature whose skewness equals the
\* threshold is not log-transformed (its regressions are fitted).
C1_LogPrecedence ==
    \A f \in Processed :
        /\ SkewGreater(Ints(df_train[f]), skewness_threshold) =>
              /\ df_train_xlog[f] = Log1pCol(df_train[f])
              /\ df_test_xlog[f] = Log1pCol(df_test[f])
              /\ fit_calls[f] = 0
        /\ SkewEquals(Ints(df_train[f]), skewness_threshold) =>
              /\ df_train_xlog[f] # Log1pCol(df_train[f])
              /\ fit_calls[f] = 2

C1_Witness ==
    /\ pc = "transformed"
    /\ SkewGreater(Ints(df_train[FeatX]), skewness_threshold)
    /\ df_train_xlog[FeatX] # df_train[FeatX]
    /\ df_test_xlog[FeatX] # df_test[FeatX]

\* C2: a feature that is not log-transformed has its train and test columns
\* replaced by the polynomial model's predictions exactly when
\* R2(polynomial) - R2(plain) on the training rows is strictly greater than
\* improvement_threshold; otherwise both columns are as they were.
C2_PolyIffImprovement ==
    \A f \in Processed :
        ~ SkewGreater(Ints(df_train[f]), skewness_threshold) =>
            LET xs == Ints(df_train[f])
                ys == Ints(df_train[target])
                gain == RatSub(R2Poly(xs, ys), R2Linear(xs, ys))
            IN  IF RatGt(gain, improvement_threshold)
                THEN /\ df_train_xlog[f] = PolyPredictCol(PolyFit(xs, ys), xs)
                     /\ df_test_xlog[f] = PolyPredictCol(PolyFit(xs, ys), Ints(df_test[f]))
                     /\ df_train_xlog[f] # df_train[f]
                ELSE /\ df_train_xlog[f] = df_train[f]
                     /\ df_test_xlog[f] = df_test[f]

C2_Witness ==
    /\ pc = "transformed"
    /\ ~ SkewGreater(Ints(df_train[FeatX]), skewness_threshold)
    /\ decision[FeatX] = "poly"
    /\ df_train_xlog[FeatX] # df_train[FeatX]
    /\ R2Linear(Ints(df_train[FeatX]), Ints(df_train[target])) # <<0, 1>>

\* C8: two runs of transform_features on the same training frame and
\* different test frames take the same decision for every feature and
\* produce the same transformed training frame.
C8_NoLeakFromTest ==
    /\ \A f \in Processed : f \in DOMAIN other.decision /\ decision[f] = other.decision[f]
    /\ df_train_xlog = other.train

C8_Witness ==
    /\ pc = "transformed"
    /\ other.test_in # df_test
    /\ decision[FeatX] = "log1p"
    /\ other.test # df_test_xlog

\* -------------------------------------------------------------------------
\* Claims on the column aggregator
\* -------------------------------------------------------------------------
\* a column named "<prefix>.N<k>" with k in lo..hi, and its prefix
IsLevelOf(col, lo, hi) ==
    /\ Len(col) >= 2
    /\ col[Len(col) - 1] = ".N"
    /\ \E k \in lo..hi : col[Len(col)] = ToString(k)
PrefixOfLevel(col) == SubSeq(col, 1, Len(col) - 2)

\* the columns of the input that belong to sub-band lo..hi of prefix var
BandOf(frame, var, lo, hi) ==
    {c \in DOMAIN frame : IsLevelOf(c, lo, hi) /\ PrefixOfLevel(c) = var}

\* the sum, in row r, of the columns cols of the frame
SumInRow(frame, cols, r) ==
    LET RECURSIVE Total(_)
        Total(S) == IF S = {} THEN 0
                    ELSE LET c == CHOOSE x \in S : TRUE
                         IN  frame[c][r][2] + Total(S \ {c})
    IN  Total(cols)

\* sub-band lo..hi of prefix var is present in the input, and the result has
\* its aggregate column named agg with the row-wise sums and none of the
\* originals
BandAggregated(var, lo, hi, agg) ==
    BandOf(df_train, var, lo, hi) # {} =>
        /\ agg \in DOMAIN result
        /\ \A r \in AggRows :
              result[agg][r] = Raw(SumInRow(df_train, BandOf(df_train, var, lo, hi), r))
        /\ BandOf(df_train, var, lo, hi) \cap DOMAIN result = {}

\* C5: after aggregate_and_sum_by_group, every prefix and sub-band with at
\* least one column "<prefix>.N<k>" in the input has its aggregate column in
\* the result, equal in every row to the sum of the sub-band's input columns,
\* and none of the summed originals is in the result.
C5_AggregateSums ==
    pc = "aggregated" =>
        \A c \in DOMAIN df_train :
            IsLevelOf(c, 1, 7) =>
                /\ BandAggregated(PrefixOfLevel(c), 1, 4, AggN1to4(PrefixOfLevel(c)))
                /\ BandAggregated(PrefixOfLevel(c), 5, 7, AggN5to7(PrefixOfLevel(c)))

\* the input columns the function summed, and the aggregates it created
Summed == {c \in DOMAIN df_train : IsLevelOf(c, 1, 7) /\ ~ HasDotN(PrefixOfLevel(c))}
Created ==
    {AggN1to4(PrefixOfLevel(c)) : c \in {d \in Summed : IsLevelOf(d, 1, 4)}}
        \cup {AggN5to7(PrefixOfLevel(c)) : c \in {d \in Summed : IsLevelOf(d, 5, 7)}}

Features(frame) == DOMAIN frame \ {target, target_log}
SameFeatures(f, g) ==
    Features(f) = Features(g) /\ \A c \in Features(f) : f[c] = g[c]

\* the variants at the positions of the list are, in this order: raw,
\* features-log, features-log and target-log, target-log only,
\* aggregated-only, aggregated-log-only, disaggregated-only,
\* grouped-aggregate
VariantOrder(list, input, xlog) ==
    /\ list[1] = input
    /\ list[2] = xlog /\ DOMAIN list[2] = DOMAIN input
    /\ DOMAIN list[3] = (DOMAIN input \ {target}) \cup {target_log}
    /\ SameFeatures(list[3], xlog)
    /\ list[3][target_log] = Log1pCol(input[target])
    /\ DOMAIN list[4] = (DOMAIN input \ {target}) \cup {target_log}
    /\ SameFeatures(list[4], input)
    /\ list[4][target_log] = Log1pCol(input[target])
    /\ DOMAIN list[5] = {c \in DOMAIN input : EndsWithMarker(c) \/ c = target}
    /\ DOMAIN list[6] = {c \in DOMAIN list[3] : ContainsMarker(c) \/ c = target_log}
    /\ DOMAIN list[7] = {c \in DOMAIN input : ~ ContainsMarker(c)}
    /\ \A c \in DOMAIN input :
          (IsLevelOf(c, 1, 7) /\ ~ HasDotN(PrefixOfLevel(c))) => c \notin DOMAIN list[8]
    /\ \A c \in DOMAIN input :
          (IsLevelOf(c, 1, 4) /\ ~ HasDotN(PrefixOfLevel(c))
                /\ ~ ContainsMarker(PrefixOfLevel(c)))
             => AggN1to4(PrefixOfLevel(c)) \in DOMAIN list[8]

\* every column of the variant has as many rows as the input
KeepsRows(variant, input) ==
    \A c \in DOMAIN variant : Len(variant[c]) = Len(input[target])

\* C7: create_variations returns exactly 8 train and 8 test variants in the
\* fixed order; at every position the train and the test variant have the
\* same column set and each keeps the row count of its input.
C7_EightVariants ==
    pc = "returned" =>
        /\ Len(df_train_list) = 8
        /\ Len(df_test_list) = 8
        /\ VariantOrder(df_train_list, df_train, df_train_xlog)
        /\ VariantOrder(df_test_list, df_test, df_test_xlog)
        /\ \A i \in 1..8 :
              /\ DOMAIN df_train_list[i] = DOMAIN df_test_list[i]
              /\ KeepsRows(df_train_list[i], df_train)
              /\ KeepsRows(df_test_list[i], df_test)

C7_Witness ==
    /\ pc = "returned"
    /\ Len(df_train_list) = 8
    /\ {FeatYTot, FeatYN1} \subseteq DOMAIN df_train
    /\ df_train_list[2] # df_train
    /\ DOMAIN df_train_list[5] = {FeatYTot, target}
    /\ DOMAIN df_train_list[8] = {AggN1to4(<<"y">>), target}

\* -------------------------------------------------------------------------
\* Claims on cluster-based modelling
\* -------------------------------------------------------------------------
\* the test MAPE of a candidate on a test partition, before it is printed
TestMape(model, test) == PercentageError(test[target], Predict(model, test, target))

\* the candidate chosen for a partition has a test MAPE that is not greater
\* than the test MAPE of the other candidate
NotWorse(best_model, lasso, rf, test) ==
    IF best_model = "Lasso"
    THEN ~ RatGt(TestMape(lasso, test), TestMape(rf, test))
    ELSE ~ RatGt(TestMape(rf, test), TestMape(lasso, test))

\* C3: for each partition and every pair of candidate test MAPE values,
\* also pairs closer than the two decimals of the Evaluation Record, the
\* winner's test MAPE is not greater than the other candidate's.
C3_LowestTestMape ==
    pc = "returned" =>
        /\ NotWorse(cbm.best_model_c0, cbm.lasso_c0, cbm.rf_c0, cbm.df_test_c0)
        /\ NotWorse(cbm.best_model_c1, cbm.lasso_c1, cbm.rf_c1, cbm.df_test_c1)

\* the candidate of a partition that a winner name stands for
Named(winner, lasso, rf) ==
    CASE winner = "Lasso" -> lasso
      [] winner = "Random Forest" -> rf

\* C4: the final Evaluation Record is computed over the actual and the
\* predicted values of the core partition followed by those of the residual
\* partition, for train and for test; each partition's predictions are
\* those of the candidate selected as its winner, which the model name
\* '<name>_<core_winner>_<residual_winner>' names.
C4_FinalEvaluation ==
    pc = "returned" =>
        LET train_c0 == Partition(df_train, 0)
            train_c1 == Partition(df_train, -1)
            test_c0 == Partition(df_test, 0)
            test_c1 == Partition(df_test, -1)
            core == Named(cbm.model_name[2], cbm.lasso_c0, cbm.rf_c0)
            residual == Named(cbm.model_name[3], cbm.lasso_c1, cbm.rf_c1)
        IN  /\ Len(cbm.model_name) = 3
            /\ cbm.model_name[2] = cbm.eval_metrics_c0[IdxMin(cbm.eval_metrics_c0)].Model
            /\ cbm.model_name[3] = cbm.eval_metrics_c1[IdxMin(cbm.eval_metrics_c1)].Model
            /\ cbm.y_train = train_c0[target] \o train_c1[target]
            /\ cbm.y_test = test_c0[target] \o test_c1[target]
            /\ cbm.y_train_pred = Predict(core, train_c0, target)
                                    \o Predict(residual, train_c1, target)
            /\ cbm.y_test_pred = Predict(core, test_c0, target)
                                   \o Predict(residual, test_c1, target)
            /\ cbm.eval_metrics.Model = cbm.model_name
            /\ cbm.eval_metrics \in ModelEvaluation(cbm.y_train, cbm.y_train_pred,
                                        cbm.y_test, cbm.y_test_pred, cbm.model_name)

\* Random Forest wins the core partition and Lasso the residual one, the
\* two candidates of each partition predict different test values, and
\* the two partitions differ in their actual values
C4_Witness ==
    /\ pc = "returned"
    /\ cbm.model_name = <<"model_name", "Random Forest", "Lasso">>
    /\ Predict(cbm.rf_c0, cbm.df_test_c0, target)
         # Predict(cbm.lasso_c0, cbm.df_test_c0, target)
    /\ Predict(cbm.rf_c1, cbm.df_test_c1, target)
         # Predict(cbm.lasso_c1, cbm.df_test_c1, target)
    /\ cbm.y_test = <<Raw(300), Raw(301)>>
    /\ cbm.y_train = <<Raw(301), Raw(300)>>

\* the partitions (core "c0", residual "c1") with zero train or test rows
HasNoRows(name) == name \in DOMAIN cbm /\ Rows(cbm[name], target) = 0
EmptyPartition(k) == HasNoRows("df_train_" \o k) \/ HasNoRows("df_test_" \o k)

\* C9: when a partition of the train or the test frame has zero rows,
\* cluster_based_modeling fails with an explicit empty-partition condition
\* raised for that partition before any candidate is fitted or evaluated on
\* it, and never returns an Evaluation Record.
C9_EmptyPartitionFails ==
    \A k \in {"c0", "c1"} :
        (pc \in {"raised", "returned"} /\ EmptyPartition(k)) =>
            /\ pc = "raised"
            /\ error.type = "EmptyPartitionError"
            /\ "lasso_" \o k \notin fitted
            /\ "rf_" \o k \notin fitted

\* the part of C9 the code satisfies: the function returns only when all
\* four partitions have rows, and a run with an empty partition ends in an
\* exception
C9_NoRecordFromEmptyPartition ==
    /\ pc = "returned" => ~ EmptyPartition("c0") /\ ~ EmptyPartition("c1")
    /\ (pc \in {"rf_c0", "rf_c1", "select"}) =>
          ~ EmptyPartition("c0") /\ ~ EmptyPartition("c1")

\* the test partition of the core is empty, its train partition is not:
\* LassoCV has been fitted on the core before the exception
C9_FittedBeforeFailure ==
    /\ pc = "raised"
    /\ Rows(cbm.df_test_c0, target) = 0
    /\ "lasso_c0" \in fitted

\* -------------------------------------------------------------------------
\* Claims on Lasso feature selection with linear regression
\* -------------------------------------------------------------------------
\* the features the Lasso step selects: those with a coefficient above 0
Positive(coef_) == {c \in DOMAIN coef_ : coef_[c] > 0}

\* C10: whenever the Lasso step selects zero features the function fails
\* with the 'no features selected' error before the linear model is
\* fitted, so the linear model is never fitted on an empty feature matrix;
\* whenever at least one feature is selected no such error is raised.
C10_NoFeaturesSelected ==
    pc \in {"ols", "raised", "returned"} =>
        /\ Positive(lfs.coef_) = {} =>
              /\ pc = "raised"
              /\ error = NoFeaturesError
              /\ "sm_model" \notin fitted
        /\ Positive(lfs.coef_) # {} =>
              /\ pc # "raised"
              /\ error = NoError
        /\ "sm_model" \in fitted =>
              /\ Range(lfs.sm_model.exog) \ {Const} = Positive(lfs.coef_)
              /\ Len(lfs.sm_model.exog) > 1

\* no coefficient is above 0 and one is below 0: the error has been raised
C10_Witness ==
    /\ pc = "raised"
    /\ error = NoFeaturesError
    /\ \E c \in DOMAIN lfs.coef_ : lfs.coef_[c] < 0
    /\ \E c \in DOMAIN lfs.coef_ : lfs.coef_[c] = 0
    /\ fitted = {"lasso"}

\* -------------------------------------------------------------------------
\* Claims on the feature transformer with ill-conditioned or failing fits
\* -------------------------------------------------------------------------
\* the number of distinct values of a column
Distinct(col) == Cardinality({col[i] : i \in DOMAIN col})

\* the features of the train frame whose fit is ill-conditioned (fewer than
\* degree + 1 distinct values) or raises (a missing value in the feature or
\* the target), the features that took the log branch aside
TroubledFit(f) ==
    /\ f \in DOMAIN df_train \ {target}
    /\ \/ HasNaN(df_train[f])
       \/ HasNaN(df_train[target])
       \/ Distinct(df_train[f]) < degree + 1
    /\ ~ (f \in DOMAIN decision /\ decision[f] = "log1p")

\* C11: when the plain or the polynomial fit of a feature is ill-conditioned
\* or raises a numeric error, apply_transformation skips the transformation
\* of that feature only, leaves its train and test column unchanged and
\* does not propagate the error; transform_features goes on to the
\* remaining features.
C11_FailSoft ==
    /\ pc # "raised"
    /\ error = NoError
    /\ \A f \in DOMAIN decision :
          TroubledFit(f) =>
              /\ decision[f] = "none"
              /\ df_train_xlog[f] = df_train[f]
              /\ df_test_xlog[f] = df_test[f]
    /\ pc = "transformed" => DOMAIN decision = DOMAIN df_train \ {target}

\* the part of C11 the code satisfies: a fit on fewer than degree + 1
\* distinct values and no missing value raises nothing and leaves the
\* train and the test column as they were
C11_IllConditionedUnchanged ==
    \A f \in DOMAIN decision :
        (/\ TroubledFit(f)
         /\ ~ HasNaN(df_train[f])
         /\ ~ HasNaN(df_train[target])) =>
            /\ decision[f] = "none"
            /\ df_train_xlog[f] = df_train[f]
            /\ df_test_xlog[f] = df_test[f]

\* the fit of the first feature has raised: the exception has left
\* transform_features and the second feature has not been processed
C11_ErrorPropagates ==
    /\ pc = "raised"
    /\ error = FitError
    /\ HasNaN(df_train[FeatX])
    /\ ~ HasNaN(df_train[FeatYTot])
    /\ FeatYTot \notin DOMAIN decision

\* an ill-conditioned fit without a missing value has been made and the
\* loop has gone on
C11_IllConditionedReached ==
    /\ pc = "transformed"
    /\ Distinct(df_train[FeatX]) = 2
    /\ decision[FeatX] = "none"
    /\ fit_calls[FeatX] = 2

\* -------------------------------------------------------------------------
\* Claims on the side effects of the column aggregator
\* -------------------------------------------------------------------------
\* C12: aggregate_and_sum_by_group is a pure function of its argument: after
\* the call the dataset object the caller passed in has the same columns
\* and values as before the call (df_train holds them), and the aggregated
\* dataset is delivered only through the return value.
C12_ArgumentUnchanged ==
    pc = "aggregated" => df = df_train

\* what the call does to the object it was given: the summed level columns
\* are gone from it and nothing else of it has changed
C12_SummedDroppedInPlace ==
    pc = "aggregated" =>
        /\ DOMAIN df = DOMAIN df_train \ Summed
        /\ \A c \in DOMAIN df : df[c] = df_train[c]
        /\ DOMAIN df \cap Created = {}

\* the caller's object has lost the level columns of y
C12_ArgumentChanged ==
    /\ pc = "aggregated"
    /\ {FeatX, FeatYN1} \subseteq DOMAIN df_train
    /\ FeatYN1 \notin DOMAIN df
    /\ FeatX \in DOMAIN df

\* -------------------------------------------------------------------------
\* Claims on ties in the selection of the winner
\* -------------------------------------------------------------------------
\* the two candidates of a partition carry the same test MAPE in the
\* comparison of lines 361-365, and Lasso is the first of them
TiedWithLassoFirst(metrics) ==
    /\ Len(metrics) = 2
    /\ metrics[1].Model = "Lasso"
    /\ metrics[2].Model = "Random Forest"
    /\ metrics[1].TestingMAPE = metrics[2].TestingMAPE

\* C13: when the two candidates of a partition have equal test MAPE in the
\* comparison, the first-encountered candidate, the Lasso candidate, is
\* the winner of the partition.
C13_TieGoesToLasso ==
    pc = "returned" =>
        /\ cbm.eval_metrics_c0[1].Model = "Lasso"
        /\ cbm.eval_metrics_c1[1].Model = "Lasso"
        /\ TiedWithLassoFirst(cbm.eval_metrics_c0) =>
              /\ cbm.best_model_c0 = "Lasso"
              /\ cbm.model_c0 = cbm.lasso_c0
              /\ cbm.model_name[2] = "Lasso"
        /\ TiedWithLassoFirst(cbm.eval_metrics_c1) =>
              /\ cbm.best_model_c1 = "Lasso"
              /\ cbm.model_c1 = cbm.lasso_c1
              /\ cbm.model_name[3] = "Lasso"

\* a tie in the core partition between two candidates that predict
\* different test values, and no tie in the residual partition, which
\* Random Forest wins
C13_Witness ==
    /\ pc = "returned"
    /\ TiedWithLassoFirst(cbm.eval_metrics_c0)
    /\ Predict(cbm.lasso_c0, cbm.df_test_c0, target)
         # Predict(cbm.rf_c0, cbm.df_test_c0, target)
    /\ cbm.best_model_c0 = "Lasso"
    /\ cbm.best_model_c1 = "Random Forest"

\* -------------------------------------------------------------------------
\* Claims on the aggregated-only and the disaggregated-only variant
\* -------------------------------------------------------------------------
\* C14: the disaggregated-only variant (position 7) is the inverse of the
\* aggregated-only selection (position 5): every non-target column of the
\* base dataset is in exactly one of the two, also a name with 'tot' or
\* 'sum' in the middle, and the target cTOTEXn is in both.
C14_InverseSelection ==
    pc = "returned" =>
        /\ \A c \in DOMAIN df_train \ {target} :
              (c \in DOMAIN df_train_list[5]) # (c \in DOMAIN df_train_list[7])
        /\ \A c \in DOMAIN df_test \ {target} :
              (c \in DOMAIN df_test_list[5]) # (c \in DOMAIN df_test_list[7])
        /\ target \in DOMAIN df_train_list[5] \cap DOMAIN df_train_list[7]
        /\ target \in DOMAIN df_test_list[5] \cap DOMAIN df_test_list[7]

\* what holds of the two selections: no non-target column is in both, the
\* target is in both, and a column is in neither exactly when its name
\* holds a marker that is not at its end
C14_NeitherIffMarkerInside ==
    pc = "returned" =>
        /\ DOMAIN df_train_list[5] \cap DOMAIN df_train_list[7] = {target}
        /\ \A c \in DOMAIN df_train \ {target} :
              (c \notin DOMAIN df_train_list[5] \cup DOMAIN df_train_list[7])
                 <=> (ContainsMarker(c) /\ ~ EndsWithMarker(c))

\* the column total.N1 is in neither of the two variants
C14_ColumnInNeither ==
    /\ pc = "returned"
    /\ FeatTotalN1 \in DOMAIN df_train
    /\ FeatTotalN1 \notin DOMAIN df_train_list[5]
    /\ FeatTotalN1 \notin DOMAIN df_train_list[7]
    /\ FeatYTot \in DOMAIN df_train_list[5]

\* -------------------------------------------------------------------------
\* Claims on the side effects of clustering
\* -------------------------------------------------------------------------
\* the features a modelling call takes from a frame: every column but the
\* target (lines 129, 160, 213)
FeaturesOf(frame) == DOMAIN frame \ {target}

\* C15: create_clusters and cluster_based_modeling leave the caller's train
\* and test datasets with the column sets they had before the call: no
\* 'Cluster' column remains on them, and a later modelling call on the same
\* dataset sees the same features as before clustering.
C15_NoClusterColumnLeft ==
    pc \in {"returned", "raised"} =>
        /\ DOMAIN df_train = DOMAIN ClusterTrainFrame
        /\ DOMAIN df_test = DOMAIN ClusterTestFrame
        /\ Cluster \notin DOMAIN df_train \cup DOMAIN df_test
        /\ FeaturesOf(df_train) = FeaturesOf(ClusterTrainFrame)
        /\ FeaturesOf(df_test) = FeaturesOf(ClusterTestFrame)

\* what the two functions do to the caller's frames: they add the column
\* 'Cluster' and change nothing else; the partitions do not have it
C15_ClusterColumnAdded ==
    pc \in {"returned", "raised"} =>
        /\ DOMAIN df_train = DOMAIN ClusterTrainFrame \cup {Cluster}
        /\ DOMAIN df_test = DOMAIN ClusterTestFrame \cup {Cluster}
        /\ \A c \in DOMAIN ClusterTrainFrame : df_train[c] = ClusterTrainFrame[c]
        /\ \A c \in DOMAIN ClusterTestFrame : df_test[c] = ClusterTestFrame[c]
        /\ \A name \in {"df_train_c0", "df_train_c1", "df_test_c0", "df_test_c1"} :
              Cluster \notin DOMAIN cbm[name]

\* the call has returned and the label column is a feature of the caller's
\* train frame
C15_ClusterIsFeature ==
    /\ pc = "returned"
    /\ Cluster \in FeaturesOf(df_train)
    /\ Cluster \in FeaturesOf(df_test)

\* -------------------------------------------------------------------------
\* Claims on the round trip of the outcome transformation
\* -------------------------------------------------------------------------
\* C16: for a log-outcome variant built by create_variations and evaluated
\* by model_predict with outcome_transformation = "log", the actual target
\* values handed to model_evaluation are the original cTOTEXn values: the
\* back-transform is the inverse of the forward transform.
C16_RoundTrip ==
    pc = "predicted" =>
        /\ predicted.y_train = df_train[target]
        /\ predicted.y_test = df_test[target]

\* what the round trip returns: exp(log1p(x)) = x + 1 in every row
PlusOne(col) == [i \in DOMAIN col |-> <<"id", col[i][2] + col[i][3], col[i][3]>>]
C16_OffByOne ==
    pc = "predicted" =>
        /\ predicted.y_train = PlusOne(df_train[target])
        /\ predicted.y_test = PlusOne(df_test[target])

\* the round trip of a train target column with the values 0 and 1
C16_RoundTripDone ==
    /\ pc = "predicted"
    /\ df_train[target] = <<Raw(0), Raw(1), Raw(1)>>
    /\ predicted.y_train = <<Raw(1), Raw(2), Raw(2)>>

====
